---- MODULE Spec2Model ----
(***************************************************************************)
(* A model of orgize: the Element classification (elements/mod.rs), the    *)
(* line scanner behind toc/keywords/fn_def (tools.rs), and the             *)
(* parse -> iter -> html pipeline described by the crate documentation     *)
(* (lib.rs).                                                               *)
(***************************************************************************)
EXTENDS Integers, Sequences, FiniteSets, TLC

VARIABLES
    element, verdict,                              \* Element::is_container call
    msrc, mi, headlines, keywords, footnotes, mpc, mret,  \* tools::metadata
    input, arena, containers, phase,               \* Org::parse
    cursor, events,                                \* Org::iter
    html, custom, calls, result                    \* Org::html, html_with_handler

kvars == <<element, verdict>>
mvars == <<msrc, mi, headlines, keywords, footnotes, mpc, mret>>
pvars == <<input, arena, containers, phase>>
ivars == <<cursor, events>>
hvars == <<html, custom, calls, result>>
vars == <<kvars, mvars, pvars, ivars, hvars>>

(***************************************************************************)
(* Bounds                                                                  *)
(***************************************************************************)
MaxLevel == 7       \* deepest headline level drawn
MaxLen == 5         \* longest source text handed to metadata, in pieces
MaxParseLines == 4  \* longest text handed to Org::parse alone, in lines
MaxDocLines == 3    \* longest text parsed, iterated and rendered, in lines

(***************************************************************************)
(* elements/mod.rs                                                         *)
(***************************************************************************)
ElementKinds ==
    {"Block", "BabelCall", "Section", "Clock", "Cookie", "RadioTarget",
     "Drawer", "Document", "DynBlock", "FnDef", "FnRef", "Headline",
     "InlineCall", "InlineSrc", "Keyword", "Link", "List", "ListItem",
     "Macros", "Planning", "Snippet", "Text", "Paragraph", "Rule",
     "Timestamp", "Target", "Bold", "Strike", "Italic", "Underline",
     "Verbatim", "Code", "Comment", "FixedWidth", "Title"}

\* the variants that carry a `value: &str`
ValueKinds == {"Text", "Verbatim", "Code", "Comment", "FixedWidth"}

Words == {"title", "Title", "section", "."}

Elem(k, l, v) == [kind |-> k, level |-> l, value |-> v]

Elements ==
    {Elem(k, 0, <<>>) : k \in ElementKinds \ (ValueKinds \cup {"Title"})}
    \cup {Elem("Title", l, <<>>) : l \in 1..MaxLevel}
    \cup {Elem(k, 0, <<w>>) : k \in ValueKinds, w \in Words}

is_container_NoTitle(e) ==
    e.kind \in {"Block", "Bold", "Document", "DynBlock", "Headline", "Italic",
                "List", "ListItem", "Paragraph", "Section", "Strike",
                "Underline"}

is_container(e) ==
    e.kind \in {"Block", "Bold", "Document", "DynBlock", "Headline", "Italic",
                "List", "ListItem", "Paragraph", "Section", "Strike",
                "Underline", "Title"}

(***************************************************************************)
(* tools.rs                                                                *)
(***************************************************************************)
\* The source text is a sequence of pieces; every piece is a literal
\* substring, and offsets are counted in pieces.
Pieces == {"*", " ", "\n", "#", "+", "[", "fn:", "x"}

RECURSIVE SeqsUpTo(_, _)
SeqsUpTo(S, n) ==
    IF n = 0 THEN {<<>>}
    ELSE LET shorter == SeqsUpTo(S, n - 1)
         IN  shorter \cup {Append(s, x) : s \in {t \in shorter : Len(t) = n - 1}, x \in S}

\* str::split('\n')
RECURSIVE Split(_)
Split(s) ==
    IF \A i \in 1..Len(s) : s[i] # "\n" THEN <<s>>
    ELSE LET p == CHOOSE i \in 1..Len(s) :
                      s[i] = "\n" /\ \A j \in 1..(i - 1) : s[j] # "\n"
         IN  <<SubSeq(s, 1, p - 1)>> \o Split(SubSeq(s, p + 1, Len(s)))

\* str::lines: the text cut at every "\n"; a final empty line is not a line
str_lines(s) ==
    LET parts == Split(s)
    IN  IF parts[Len(parts)] = <<>> THEN SubSeq(parts, 1, Len(parts) - 1)
        ELSE parts

\* src.lines().filter(|l| !l.is_empty())
NonEmptyLines(s) == SelectSeq(str_lines(s), LAMBDA l : l # <<>>)

starts_with_FirstOnly(line, prefix) ==
    /\ Len(line) >= 1
    /\ line[1] = prefix[1]

starts_with(line, prefix) ==
    /\ Len(line) >= Len(prefix)
    /\ SubSeq(line, 1, Len(prefix)) = prefix

\* memchr(needle, haystack): 0-based offset of the first needle, -1 for None
memchr(c, line) ==
    IF \E i \in 1..Len(line) : line[i] = c
    THEN (CHOOSE i \in 1..Len(line) :
              line[i] = c /\ \A j \in 1..(i - 1) : line[j] # c) - 1
    ELSE -1

\* memchr(b' ', line.as_bytes()).unwrap_or_else(|| line.len())
HeadlineLevel(line) ==
    IF memchr(" ", line) = -1 THEN Len(line) ELSE memchr(" ", line)

\* line.as_bytes()[0..level].iter().all(|&c| c == b'*')
AllStars_SpaceRequired(line) ==
    /\ memchr(" ", line) # -1
    /\ \A i \in 1..HeadlineLevel(line) : line[i] = "*"

AllStars(line) == \A i \in 1..HeadlineLevel(line) : line[i] = "*"

\* Keyword::parse and fn_def::parse return an Option; the scanner only
\* depends on whether it is Some
ParseOutcomes == {"Some", "None"}

Entry(i, line) == [idx |-> i, line |-> line]

MetaLine == NonEmptyLines(msrc)[mi]

MetaInit ==
    /\ msrc \in SeqsUpTo(Pieces, MaxLen)
    /\ mi = 1
    /\ headlines = <<>>
    /\ keywords = <<>>
    /\ footnotes = <<>>
    /\ mpc = "scan"
    /\ mret = <<>>

MetaScanning == mpc = "scan" /\ mi <= Len(NonEmptyLines(msrc))

\* line.starts_with('*') and every byte before the first space is '*'
MetaHeadline ==
    /\ MetaScanning
    /\ starts_with(MetaLine, <<"*">>)
    /\ AllStars(MetaLine)
    /\ headlines' = Append(headlines, Entry(mi, MetaLine))
    /\ mi' = mi + 1
    /\ UNCHANGED <<msrc, keywords, footnotes, mpc, mret>>

\* line.starts_with('*') but the all-stars test fails
MetaStarNoHeadline ==
    /\ MetaScanning
    /\ starts_with(MetaLine, <<"*">>)
    /\ ~AllStars(MetaLine)
    /\ mi' = mi + 1
    /\ UNCHANGED <<msrc, headlines, keywords, footnotes, mpc, mret>>

MetaKeyword ==
    /\ MetaScanning
    /\ ~starts_with(MetaLine, <<"*">>)
    /\ starts_with(MetaLine, <<"#", "+">>)
    /\ \E r \in ParseOutcomes :
          keywords' = IF r = "Some" THEN Append(keywords, Entry(mi, MetaLine))
                      ELSE keywords
    /\ mi' = mi + 1
    /\ UNCHANGED <<msrc, headlines, footnotes, mpc, mret>>

MetaFootnote ==
    /\ MetaScanning
    /\ ~starts_with(MetaLine, <<"*">>)
    /\ ~starts_with(MetaLine, <<"#", "+">>)
    /\ starts_with(MetaLine, <<"[", "fn:">>)
    /\ \E r \in ParseOutcomes :
          footnotes' = IF r = "Some" THEN Append(footnotes, Entry(mi, MetaLine))
                       ELSE footnotes
    /\ mi' = mi + 1
    /\ UNCHANGED <<msrc, headlines, keywords, mpc, mret>>

MetaOther ==
    /\ MetaScanning
    /\ ~starts_with(MetaLine, <<"*">>)
    /\ ~starts_with(MetaLine, <<"#", "+">>)
    /\ ~starts_with(MetaLine, <<"[", "fn:">>)
    /\ mi' = mi + 1
    /\ UNCHANGED <<msrc, headlines, keywords, footnotes, mpc, mret>>

\* the loop is over: metadata returns (headlines, keywords, footnotes)
MetaReturn ==
    /\ mpc = "scan"
    /\ mi > Len(NonEmptyLines(msrc))
    /\ mpc' = "done"
    /\ UNCHANGED <<msrc, mi, headlines, keywords, footnotes, mret>>

metadata == <<headlines, keywords, footnotes>>

toc ==
    /\ mpc = "done"
    /\ mret' = <<"toc", metadata[1]>>
    /\ mpc' = "returned"
    /\ UNCHANGED <<msrc, mi, headlines, keywords, footnotes>>

keywords_fn ==
    /\ mpc = "done"
    /\ mret' = <<"keywords", metadata[2]>>
    /\ mpc' = "returned"
    /\ UNCHANGED <<msrc, mi, headlines, keywords, footnotes>>

fn_def ==
    /\ mpc = "done"
    /\ mret' = <<"fn_def", metadata[3]>>
    /\ mpc' = "returned"
    /\ UNCHANGED <<msrc, mi, headlines, keywords, footnotes>>

MetaIdle ==
    /\ msrc = <<>>
    /\ mi = 1
    /\ headlines = <<>>
    /\ keywords = <<>>
    /\ footnotes = <<>>
    /\ mpc = "idle"
    /\ mret = <<>>

(***************************************************************************)
(* Org::parse: tree assembly                                               *)
(***************************************************************************)
\* the lines a source text is drawn from
LineChoices ==
    {<<"*", " ", "title">>,
     <<"*", "*", " ", "Title">>,
     <<"*", "*", "*", "*", "*", "*", "*", " ", "title">>,
     <<"*", "section", "*">>,
     <<"*", "section">>,
     <<"#+BEGIN:">>,
     <<"#+END:">>}

Min(S) == CHOOSE x \in S : \A y \in S : x <= y

Node(e, p, at) == [elem |-> e, parent |-> p, children |-> <<>>, pos |-> at]

Task(ty, n, lo, hi, text) ==
    [ty |-> ty, node |-> n, lo |-> lo, hi |-> hi, text |-> text]

\* append a node as the last child of p
AddNode(ar, p, e, at) ==
    Append([ar EXCEPT ![p].children = Append(@, Len(ar) + 1)], Node(e, p, at))

\* the number of stars of a headline line (a run of stars followed by a
\* space), 0 for any other line
headline_level(line) ==
    IF \E p \in 2..Len(line) :
           line[p] = " " /\ \A j \in 1..(p - 1) : line[j] = "*"
    THEN memchr(" ", line)
    ELSE 0

\* the last line owned by the headline at line p: up to the next headline
\* whose level is strictly lower
headline_end_StrictlyLower(p, hi) ==
    LET stops == {q \in (p + 1)..hi :
                      /\ headline_level(input[q]) > 0
                      /\ headline_level(input[q]) < headline_level(input[p])}
    IN  IF stops = {} THEN hi ELSE Min(stops) - 1

\* the last line owned by the headline at line p: up to the next headline
\* of the same or a lower level, or the end of the range
headline_end(p, hi) ==
    LET stops == {q \in (p + 1)..hi :
                      /\ headline_level(input[q]) > 0
                      /\ headline_level(input[q]) <= headline_level(input[p])}
    IN  IF stops = {} THEN hi ELSE Min(stops) - 1

RECURSIVE parse_headlines(_, _, _, _, _)
parse_headlines(ar, tasks, p, hi, parent) ==
    IF p > hi THEN [ar |-> ar, tasks |-> tasks]
    ELSE LET e == headline_end(p, hi)
         IN  parse_headlines(AddNode(ar, parent, Elem("Headline", 0, <<>>), p),
                             Append(tasks, Task("Headline", Len(ar) + 1, p, e, <<>>)),
                             e + 1, hi, parent)

\* the lines before the first headline become a section, every headline
\* after it a child headline with the lines it owns
parse_section_and_headlines(ar, tasks, lo, hi, parent) ==
    LET hs == {q \in lo..hi : headline_level(input[q]) > 0}
        h == IF hs = {} THEN hi + 1 ELSE Min(hs)
        sec == IF h > lo
               THEN [ar |-> AddNode(ar, parent, Elem("Section", 0, <<>>), lo),
                     tasks |-> Append(tasks, Task("Block", Len(ar) + 1, lo, h - 1, <<>>))]
               ELSE [ar |-> ar, tasks |-> tasks]
    IN  parse_headlines(sec.ar, sec.tasks, h, hi, parent)

\* the caller's text, before it is handed to Org::parse
SourceInit ==
    /\ input = <<>>
    /\ arena = <<>>
    /\ containers = <<>>
    /\ phase = "source"

\* the caller's text grows by one line
SourceLine(max) ==
    /\ phase = "source"
    /\ Len(input) < max
    /\ \E l \in LineChoices : input' = Append(input, l)
    /\ UNCHANGED <<arena, containers, phase>>

\* Org::parse(input): the arena holds the document, whose content is the
\* whole text
OrgParse ==
    /\ phase = "source"
    /\ arena' = <<Node(Elem("Document", 0, <<>>), 0, 0)>>
    /\ containers' = <<Task("Document", 1, 1, Len(input), <<>>)>>
    /\ phase' = "parse"
    /\ UNCHANGED input

Parsing == phase = "parse" /\ containers # <<>>

ParseDocument ==
    /\ Parsing
    /\ Head(containers).ty = "Document"
    /\ LET t == Head(containers)
           r == parse_section_and_headlines(arena, Tail(containers), t.lo, t.hi, t.node)
       IN  arena' = r.ar /\ containers' = r.tasks
    /\ UNCHANGED <<input, phase>>

\* the headline line becomes the title, the lines it owns its section and
\* child headlines
ParseHeadline ==
    /\ Parsing
    /\ Head(containers).ty = "Headline"
    /\ LET t == Head(containers)
           line == input[t.lo]
           level == headline_level(line)
           raw == SubSeq(line, level + 2, Len(line))
           ar1 == AddNode(arena, t.node, Elem("Title", level, raw), t.lo)
           ts1 == IF raw = <<>> THEN Tail(containers)
                  ELSE Append(Tail(containers),
                              Task("Inline", Len(arena) + 1, 1, Len(raw), raw))
           r == parse_section_and_headlines(ar1, ts1, t.lo + 1, t.hi, t.node)
       IN  arena' = r.ar /\ containers' = r.tasks
    /\ UNCHANGED <<input, phase>>

Advance_OffByOne(tasks, lo) ==
    IF lo - 1 > Head(tasks).hi THEN Tail(tasks)
    ELSE <<[Head(tasks) EXCEPT !.lo = lo - 1]>> \o Tail(tasks)

\* the head task with its read position moved to lo, dropped once exhausted
Advance(tasks, lo) ==
    IF lo > Head(tasks).hi THEN Tail(tasks)
    ELSE <<[Head(tasks) EXCEPT !.lo = lo]>> \o Tail(tasks)

IsKeywordLine(line) == line \in {<<"#+BEGIN:">>, <<"#+END:">>}

\* the line of the #+END: that closes a #+BEGIN: at line lo, 0 if none
dyn_block_end(lo, hi) ==
    LET ends == {q \in (lo + 1)..hi : input[q] = <<"#+END:">>}
    IN  IF input[lo] = <<"#+BEGIN:">> /\ ends # {} THEN Min(ends) ELSE 0

\* the last line of the paragraph that starts at line lo
paragraph_end(lo, hi) ==
    LET stops == {q \in (lo + 1)..hi : IsKeywordLine(input[q])}
    IN  IF stops = {} THEN hi ELSE Min(stops) - 1

RECURSIVE JoinLines(_, _)
JoinLines(lo, hi) ==
    IF lo = hi THEN input[lo]
    ELSE input[lo] \o <<"\n">> \o JoinLines(lo + 1, hi)

\* the recognizers of a block range, in precedence order
dyn_block_matches(t) == t.ty = "Block" /\ dyn_block_end(t.lo, t.hi) # 0

keyword_matches(t) ==
    /\ t.ty = "Block"
    /\ dyn_block_end(t.lo, t.hi) = 0
    /\ IsKeywordLine(input[t.lo])

paragraph_matches(t) == t.ty = "Block" /\ ~IsKeywordLine(input[t.lo])

\* a terminated dynamic block: its body is parsed as elements
ParseDynBlock ==
    /\ Parsing
    /\ dyn_block_matches(Head(containers))
    /\ LET t == Head(containers)
           e == dyn_block_end(t.lo, t.hi)
       IN  /\ arena' = AddNode(arena, t.node, Elem("DynBlock", 0, <<>>), t.lo)
           /\ containers' =
                 IF e > t.lo + 1
                 THEN Append(Advance(containers, e + 1),
                             Task("Block", Len(arena) + 1, t.lo + 1, e - 1, <<>>))
                 ELSE Advance(containers, e + 1)
    /\ UNCHANGED <<input, phase>>

\* an unterminated #+BEGIN: or a stray #+END: is an ordinary keyword line
ParseKeyword ==
    /\ Parsing
    /\ keyword_matches(Head(containers))
    /\ LET t == Head(containers)
       IN  /\ arena' = AddNode(arena, t.node, Elem("Keyword", 0, <<>>), t.lo)
           /\ containers' = Advance(containers, t.lo + 1)
    /\ UNCHANGED <<input, phase>>

ParseParagraph ==
    /\ Parsing
    /\ paragraph_matches(Head(containers))
    /\ LET t == Head(containers)
           e == paragraph_end(t.lo, t.hi)
           text == JoinLines(t.lo, e)
       IN  /\ arena' = AddNode(arena, t.node, Elem("Paragraph", 0, <<>>), t.lo)
           /\ containers' = Append(Advance(containers, e + 1),
                                   Task("Inline", Len(arena) + 1, 1, Len(text), text))
    /\ UNCHANGED <<input, phase>>

IsWord(c) == c \notin {"*", " ", "\n"}

\* the closing marker of an emphasis span opened at i, 0 if i opens none
emphasis_close(text, i) ==
    LET closes == {j \in (i + 2)..Len(text) :
                       /\ text[j] = "*"
                       /\ j = Len(text) \/ ~IsWord(text[j + 1])}
    IN  IF /\ text[i] = "*"
           /\ i = 1 \/ ~IsWord(text[i - 1])
           /\ closes # {}
        THEN Min(closes) ELSE 0

\* the end of the plain text that starts at i: the position before the next
\* one where an emphasis span opens
text_end(text, i) ==
    LET opens == {q \in (i + 1)..Len(text) : emphasis_close(text, q) # 0}
    IN  IF opens = {} THEN Len(text) ELSE Min(opens) - 1

\* the recognizers of an inline range: emphasis, else plain text
emphasis_matches(t) == t.ty = "Inline" /\ emphasis_close(t.text, t.lo) # 0

text_matches(t) == t.ty = "Inline" /\ emphasis_close(t.text, t.lo) = 0

ParseEmphasis ==
    /\ Parsing
    /\ emphasis_matches(Head(containers))
    /\ LET t == Head(containers)
           j == emphasis_close(t.text, t.lo)
           inner == SubSeq(t.text, t.lo + 1, j - 1)
       IN  /\ arena' = AddNode(arena, t.node, Elem("Bold", 0, <<>>), t.lo)
           /\ containers' = Append(Advance(containers, j + 1),
                                   Task("Inline", Len(arena) + 1, 1, Len(inner), inner))
    /\ UNCHANGED <<input, phase>>

ParseText ==
    /\ Parsing
    /\ text_matches(Head(containers))
    /\ LET t == Head(containers)
           e == text_end(t.text, t.lo)
       IN  /\ arena' = AddNode(arena, t.node,
                               Elem("Text", 0, SubSeq(t.text, t.lo, e)), t.lo)
           /\ containers' = Advance(containers, e + 1)
    /\ UNCHANGED <<input, phase>>

\* the work list is empty: parse returns the Org
ParseFinish ==
    /\ phase = "parse"
    /\ containers = <<>>
    /\ phase' = "parsed"
    /\ UNCHANGED <<input, arena, containers>>

ParseStep ==
    \/ OrgParse
    \/ ParseDocument
    \/ ParseHeadline
    \/ ParseDynBlock
    \/ ParseKeyword
    \/ ParseParagraph
    \/ ParseEmphasis
    \/ ParseText
    \/ ParseFinish

OrgIdle ==
    /\ input = <<>>
    /\ arena = <<>>
    /\ containers = <<>>
    /\ phase = "idle"

(***************************************************************************)
(* Org::iter: the events of a depth-first traversal                        *)
(***************************************************************************)
Edge(e, n) == [edge |-> e, node |-> n]

NoEdge == Edge("None", 0)

first_child(n) ==
    IF arena[n].children = <<>> THEN 0 ELSE arena[n].children[1]

next_sibling(n) ==
    LET sibs == arena[arena[n].parent].children
        at == CHOOSE i \in 1..Len(sibs) : sibs[i] = n
    IN  IF at < Len(sibs) THEN sibs[at + 1] ELSE 0

\* what follows End(n)
after_end(n) ==
    IF arena[n].parent = 0 THEN NoEdge
    ELSE IF next_sibling(n) # 0 THEN Edge("Start", next_sibling(n))
    ELSE Edge("End", arena[n].parent)

\* a traversal that emits no End for a node that is not a container
traverse_next_LeafNoEnd(c) ==
    IF c.edge = "Start"
    THEN IF first_child(c.node) # 0 THEN Edge("Start", first_child(c.node))
         ELSE IF is_container(arena[c.node].elem) THEN Edge("End", c.node)
         ELSE after_end(c.node)
    ELSE after_end(c.node)

\* the edge after c: every element, container or not, gets a Start and an End
traverse_next(c) ==
    IF c.edge = "Start"
    THEN IF first_child(c.node) # 0 THEN Edge("Start", first_child(c.node))
         ELSE Edge("End", c.node)
    ELSE after_end(c.node)

IterIdle == cursor = NoEdge /\ events = <<>>

\* Org::iter(): a fresh iterator at the root
OrgIter ==
    /\ phase = "parsed"
    /\ phase' = "iter"
    /\ cursor' = Edge("Start", 1)
    /\ events' = <<>>
    /\ UNCHANGED <<input, arena, containers, hvars>>

\* Iterator::next() returns Some(event)
IterNext ==
    /\ phase = "iter"
    /\ cursor # NoEdge
    /\ events' = Append(events, cursor)
    /\ cursor' = traverse_next(cursor)
    /\ UNCHANGED <<pvars, hvars>>

\* Iterator::next() returns None
IterFinish ==
    /\ phase = "iter"
    /\ cursor = NoEdge
    /\ phase' = "iterated"
    /\ UNCHANGED <<input, arena, containers, ivars, hvars>>

(***************************************************************************)
(* export: DefaultHtmlHandler, and the MyHtmlHandler of the crate docs     *)
(***************************************************************************)
Ok(out) == [ok |-> TRUE, out |-> out]

Err == [ok |-> FALSE, out |-> <<>>]

\* {} applied to a headline level
Decimal(n) ==
    CASE n = 0 -> "0" [] n = 1 -> "1" [] n = 2 -> "2" [] n = 3 -> "3"
      [] n = 4 -> "4" [] n = 5 -> "5" [] n = 6 -> "6" [] n = 7 -> "7"
      [] n = 8 -> "8" [] n = 9 -> "9"

EscapePiece(c) ==
    CASE c = "<" -> "&lt;" [] c = ">" -> "&gt;" [] c = "&" -> "&amp;"
      [] OTHER -> c

Escape(value) == [i \in 1..Len(value) |-> EscapePiece(value[i])]

HeadingLevel(e) == IF e.level <= 6 THEN e.level ELSE 6

default_start(e) ==
    CASE e.kind = "Document" -> Ok(<<"<main>">>)
      [] e.kind = "Title" -> Ok(<<"<h", Decimal(HeadingLevel(e)), ">">>)
      [] e.kind = "Section" -> Ok(<<"<section>">>)
      [] e.kind = "Paragraph" -> Ok(<<"<p>">>)
      [] e.kind = "Bold" -> Ok(<<"<b>">>)
      [] e.kind = "Text" -> Ok(Escape(e.value))
      [] e.kind \in {"Headline", "DynBlock", "Keyword"} -> Ok(<<>>)

default_end_ClosesText(e) ==
    CASE e.kind = "Document" -> Ok(<<"</main>">>)
      [] e.kind = "Title" -> Ok(<<"</h", Decimal(HeadingLevel(e)), ">">>)
      [] e.kind = "Section" -> Ok(<<"</section>">>)
      [] e.kind = "Paragraph" -> Ok(<<"</p>">>)
      [] e.kind = "Bold" -> Ok(<<"</b>">>)
      [] e.kind = "Text" -> Ok(<<"</span>">>)
      [] OTHER -> Ok(<<>>)

\* every end event of a non-container element is silently ignored
default_end(e) ==
    CASE e.kind = "Document" -> Ok(<<"</main>">>)
      [] e.kind = "Title" -> Ok(<<"</h", Decimal(HeadingLevel(e)), ">">>)
      [] e.kind = "Section" -> Ok(<<"</section>">>)
      [] e.kind = "Paragraph" -> Ok(<<"</p>">>)
      [] e.kind = "Bold" -> Ok(<<"</b>">>)
      [] e.kind \in {"Headline", "DynBlock"} -> Ok(<<>>)
      [] OTHER -> Ok(<<>>)

SlugPiece(c) == CASE c = "Title" -> "title" [] OTHER -> c

\* slugify!(&title.raw)
slugify(raw) == [i \in 1..Len(raw) |-> SlugPiece(raw[i])]

my_start_NoFallthrough(e) ==
    IF e.kind = "Title"
    THEN IF e.level > 6 THEN Err
         ELSE Ok(<<"<h", Decimal(e.level), "><a id=\"">> \o slugify(e.value)
                 \o <<"\" href=\"#">> \o slugify(e.value) \o <<"\">">>)
    ELSE Ok(<<>>)

\* MyHtmlHandler::start
my_start(e) ==
    IF e.kind = "Title"
    THEN IF e.level > 6 THEN Err
         ELSE Ok(<<"<h", Decimal(e.level), "><a id=\"">> \o slugify(e.value)
                 \o <<"\" href=\"#">> \o slugify(e.value) \o <<"\">">>)
    ELSE default_start(e)

\* MyHtmlHandler::end
my_end(e) ==
    IF e.kind = "Title" THEN Ok(<<"</a></h", Decimal(e.level), ">">>)
    ELSE default_end(e)

RECURSIVE Flatten(_)
Flatten(frags) ==
    IF frags = <<>> THEN <<>> ELSE Head(frags) \o Flatten(Tail(frags))

HtmlIdle == html = <<>> /\ custom = <<>> /\ calls = <<>> /\ result = "pending"

\* Org::html(writer): render with the DefaultHtmlHandler
OrgHtml ==
    /\ phase = "iterated"
    /\ phase' = "html"
    /\ cursor' = Edge("Start", 1)
    /\ UNCHANGED <<input, arena, containers, events, hvars>>

\* Event::Start(element) => handler.start(&mut writer, element)?
HtmlStart ==
    /\ phase = "html"
    /\ cursor.edge = "Start"
    /\ html' = Append(html, default_start(arena[cursor.node].elem).out)
    /\ cursor' = traverse_next(cursor)
    /\ UNCHANGED <<pvars, events, custom, calls, result>>

\* Event::End(element) => handler.end(&mut writer, element)?
HtmlEnd ==
    /\ phase = "html"
    /\ cursor.edge = "End"
    /\ html' = Append(html, default_end(arena[cursor.node].elem).out)
    /\ cursor' = traverse_next(cursor)
    /\ UNCHANGED <<pvars, events, custom, calls, result>>

HtmlFinish ==
    /\ phase = "html"
    /\ cursor = NoEdge
    /\ phase' = "rendered"
    /\ UNCHANGED <<input, arena, containers, ivars, hvars>>

\* Org::html_with_handler(writer, &mut MyHtmlHandler(DefaultHtmlHandler))
OrgHtmlWithHandler ==
    /\ phase = "rendered"
    /\ phase' = "custom"
    /\ cursor' = Edge("Start", 1)
    /\ UNCHANGED <<input, arena, containers, events, hvars>>

\* a failed call is recorded but the loop goes on to the next event
CustomStart_NoAbort ==
    /\ phase = "custom"
    /\ cursor.edge = "Start"
    /\ calls' = Append(calls, cursor)
    /\ LET r == my_start(arena[cursor.node].elem)
       IN  /\ custom' = Append(custom, r.out)
           /\ result' = IF r.ok THEN result ELSE "Err(Heading)"
    /\ cursor' = traverse_next(cursor)
    /\ UNCHANGED <<pvars, events, html>>

\* handler.start(&mut writer, element)?: an Err is returned at once
CustomStart ==
    /\ phase = "custom"
    /\ cursor.edge = "Start"
    /\ calls' = Append(calls, cursor)
    /\ LET r == my_start(arena[cursor.node].elem)
       IN  IF r.ok
           THEN /\ custom' = Append(custom, r.out)
                /\ cursor' = traverse_next(cursor)
                /\ UNCHANGED <<phase, result>>
           ELSE /\ result' = "Err(Heading)"
                /\ phase' = "done"
                /\ UNCHANGED <<custom, cursor>>
    /\ UNCHANGED <<input, arena, containers, events, html>>

\* handler.end(&mut writer, element)?
CustomEnd ==
    /\ phase = "custom"
    /\ cursor.edge = "End"
    /\ calls' = Append(calls, cursor)
    /\ custom' = Append(custom, my_end(arena[cursor.node].elem).out)
    /\ cursor' = traverse_next(cursor)
    /\ UNCHANGED <<pvars, events, html, result>>

\* the events are exhausted: Ok(())
CustomFinish ==
    /\ phase = "custom"
    /\ cursor = NoEdge
    /\ result' = "Ok"
    /\ phase' = "done"
    /\ UNCHANGED <<input, arena, containers, ivars, html, custom, calls>>

(***************************************************************************)
(* Element::is_container applied to any element                            *)
(***************************************************************************)
KindsIdle == element = Elem("Document", 0, <<>>) /\ verdict = "none"

KindsInit == element \in Elements /\ verdict = "none"

Classify ==
    /\ verdict = "none"
    /\ verdict' = IF is_container(element) THEN "container" ELSE "leaf"
    /\ UNCHANGED element

(***************************************************************************)
(* Specifications                                                          *)
(***************************************************************************)
InitKinds == KindsInit /\ MetaIdle /\ OrgIdle /\ IterIdle /\ HtmlIdle
NextKinds == Classify /\ UNCHANGED <<mvars, pvars, ivars, hvars>>
SpecKinds == InitKinds /\ [][NextKinds]_vars

InitMeta == MetaInit /\ KindsIdle /\ OrgIdle /\ IterIdle /\ HtmlIdle
NextMeta ==
    /\ UNCHANGED <<kvars, pvars, ivars, hvars>>
    /\ \/ MetaHeadline
       \/ MetaStarNoHeadline
       \/ MetaKeyword
       \/ MetaFootnote
       \/ MetaOther
       \/ MetaReturn
       \/ toc
       \/ keywords_fn
       \/ fn_def
SpecMeta == InitMeta /\ [][NextMeta]_vars

InitParse == SourceInit /\ KindsIdle /\ MetaIdle /\ IterIdle /\ HtmlIdle
NextParse ==
    /\ UNCHANGED <<kvars, mvars, ivars, hvars>>
    /\ \/ SourceLine(MaxParseLines)
       \/ ParseStep
SpecParse == InitParse /\ [][NextParse]_vars

\* parse, then iter, then html, then html_with_handler, as in the crate docs
NextOrg ==
    /\ UNCHANGED <<kvars, mvars>>
    /\ \/ (SourceLine(MaxDocLines) \/ ParseStep) /\ UNCHANGED <<ivars, hvars>>
       \/ OrgIter
       \/ IterNext
       \/ IterFinish
       \/ OrgHtml
       \/ HtmlStart
       \/ HtmlEnd
       \/ HtmlFinish
       \/ OrgHtmlWithHandler
       \/ CustomStart
       \/ CustomEnd
       \/ CustomFinish
Spec == InitParse /\ [][NextOrg]_vars

(***************************************************************************)
(* Element classification                                                  *)
(***************************************************************************)
SpecContainerKinds ==
    {"Document", "Section", "Headline", "Paragraph", "List", "ListItem",
     "Block", "DynBlock", "Bold", "Italic", "Strike", "Underline"}

\* C3 as stated: is_container is true exactly for document, section,
\* headline, paragraph, list, list-item, block, dynamic-block, bold, italic,
\* strike and underline, and false for every other variant.
C3_AsStated ==
    verdict # "none" =>
        (verdict = "container" <=> element.kind \in SpecContainerKinds)

\* C3 amended: is_container is true exactly for the twelve kinds above and
\* for title, and false for every other variant.
C3_Containers ==
    verdict # "none" =>
        /\ verdict = "container" <=>
               element.kind \in SpecContainerKinds \cup {"Title"}
        /\ verdict = "leaf" <=>
               element.kind \in ElementKinds \ (SpecContainerKinds \cup {"Title"})

C3_Witness == verdict = "container" /\ element.kind = "Title"

(***************************************************************************)
(* metadata                                                                *)
(***************************************************************************)
MetaFinished == mpc \in {"done", "returned"}

\* the first characters of the line are those of the prefix
Begins(line, prefix) ==
    \A k \in 1..Len(prefix) : k <= Len(line) /\ line[k] = prefix[k]

\* the entries of the lines satisfying P, in line order
EntriesWhere(P(_)) ==
    LET ls == NonEmptyLines(msrc)
        all == [i \in 1..Len(ls) |-> Entry(i, ls[i])]
    IN  SelectSeq(all, LAMBDA e : P(e.line))

\* a run of one or more stars that is followed by a space
StarsThenSpace(line) ==
    \E p \in 2..Len(line) :
        /\ line[p] = " "
        /\ \A j \in 1..(p - 1) : line[j] = "*"

\* a run of one or more stars that ends at the first space or at the end of
\* the line
StarsToSpaceOrEnd(line) ==
    /\ line[1] = "*"
    /\ \A j \in 1..Len(line) :
          (\A k \in 1..j : line[k] # " ") => line[j] = "*"

\* C9 as stated: metadata (and toc) records a line as a headline if and only
\* if the line begins with a run of stars that is followed by a space.
C9_AsStated ==
    MetaFinished => headlines = EntriesWhere(StarsThenSpace)

\* C9 amended: metadata (and toc) records a line as a headline if and only
\* if the line begins with a star and every character before its first
\* space, or before its end when it has no space, is a star.
C9_Headlines ==
    /\ MetaFinished => headlines = EntriesWhere(StarsToSpaceOrEnd)
    /\ (mpc = "returned" /\ mret[1] = "toc") =>
           mret[2] = EntriesWhere(StarsToSpaceOrEnd)

C9_Witness ==
    /\ mpc = "returned"
    /\ mret[1] = "toc"
    /\ \E i \in 1..Len(headlines) : memchr(" ", headlines[i].line) = -1
    /\ \E i \in 1..Len(NonEmptyLines(msrc)) :
          /\ Begins(NonEmptyLines(msrc)[i], <<"*">>)
          /\ \A j \in 1..Len(headlines) : headlines[j].idx # i

Increasing(list) ==
    \A i, j \in 1..Len(list) : i < j => list[i].idx < list[j].idx

FromLines(list, prefix) ==
    \A i \in 1..Len(list) :
        /\ list[i].idx \in 1..(mi - 1)
        /\ list[i].line = NonEmptyLines(msrc)[list[i].idx]
        /\ list[i].line # <<>>
        /\ Begins(list[i].line, prefix)

\* C10: metadata makes one pass over the lines: empty lines are skipped,
\* every non-empty line adds at most one entry to exactly one of the three
\* lists, chosen by the line's prefix, each list keeps the order of the
\* source lines, and toc, keywords and fn_def return the first, second and
\* third component of metadata.
C10_SinglePass ==
    /\ FromLines(headlines, <<"*">>)
    /\ FromLines(keywords, <<"#", "+">>)
    /\ FromLines(footnotes, <<"[", "fn:">>)
    /\ Increasing(headlines) /\ Increasing(keywords) /\ Increasing(footnotes)
    /\ Len(headlines) + Len(keywords) + Len(footnotes) <= mi - 1
    /\ mi <= Len(NonEmptyLines(msrc)) + 1
    /\ MetaFinished => mi = Len(NonEmptyLines(msrc)) + 1
    /\ mpc = "returned" =>
          \/ mret = <<"toc", headlines>>
          \/ mret = <<"keywords", keywords>>
          \/ mret = <<"fn_def", footnotes>>

C10_Witness ==
    /\ mpc = "returned"
    /\ mret[1] = "keywords"
    /\ Len(mret[2]) = 1
    /\ Len(headlines) = 1
    /\ Len(str_lines(msrc)) > Len(NonEmptyLines(msrc))

(***************************************************************************)
(* Tree assembly                                                           *)
(***************************************************************************)
Max(S) == CHOOSE x \in S : \A y \in S : x >= y

HeadlineLines == {q \in 1..Len(input) : headline_level(input[q]) > 0}

HeadlineNodesAt(q) ==
    {n \in 1..Len(arena) : arena[n].elem.kind = "Headline" /\ arena[n].pos = q}

\* the headline lines before q whose level is strictly smaller
Shallower(q) ==
    {r \in HeadlineLines : r < q /\ headline_level(input[r]) < headline_level(input[q])}

\* C4: each headline's parent is the nearest preceding headline with a
\* strictly smaller level, or the document if there is none; for levels
\* [1,2,2,1] both level-2 headlines are children of the first headline and
\* the fourth is its sibling.
C4_HeadlineNesting ==
    phase = "parsed" =>
        /\ \A q \in HeadlineLines :
              /\ Cardinality(HeadlineNodesAt(q)) = 1
              /\ \A n \in HeadlineNodesAt(q) :
                    IF Shallower(q) = {} THEN arena[n].parent = 1
                    ELSE arena[n].parent \in HeadlineNodesAt(Max(Shallower(q)))
        /\ \A n \in 1..Len(arena) :
              arena[n].elem.kind = "Headline" => arena[n].pos \in HeadlineLines

C4_Witness ==
    /\ phase = "parsed"
    /\ input = << <<"*", " ", "title">>, <<"*", "*", " ", "Title">>,
                  <<"*", "*", " ", "Title">>, <<"*", " ", "title">> >>
    /\ \E a, b, c, d \in 1..Len(arena) :
          /\ a \in HeadlineNodesAt(1) /\ b \in HeadlineNodesAt(2)
          /\ c \in HeadlineNodesAt(3) /\ d \in HeadlineNodesAt(4)
          /\ arena[1].children = <<a, d>>
          /\ arena[b].parent = a /\ arena[c].parent = a

Childless == {n \in 1..Len(arena) : arena[n].children = <<>>}

RECURSIVE LineWork(_, _)
LineWork(lo, hi) ==
    IF lo > hi THEN 0 ELSE Len(input[lo]) + 3 + LineWork(lo + 1, hi)

\* the input a task still has to read, weighted so that handing a range
\* down to a child task costs less than keeping it
TaskWork(t) ==
    CASE t.ty = "Inline" -> t.hi - t.lo + 1
      [] t.ty = "Document" -> LineWork(t.lo, t.hi) + 1
      [] OTHER -> LineWork(t.lo, t.hi)

RECURSIVE PendingWork(_)
PendingWork(tasks) ==
    IF tasks = <<>> THEN 0 ELSE TaskWork(Head(tasks)) + PendingWork(Tail(tasks))

\* the head task is one a parse step takes: a document, a headline, or a
\* range with input left that one of the recognizers matches
SomeParserApplies ==
    LET t == Head(containers)
    IN  \/ t.ty \in {"Document", "Headline"}
        \/ /\ t.lo <= t.hi
           /\ \/ dyn_block_matches(t) \/ keyword_matches(t) \/ paragraph_matches(t)
              \/ emphasis_matches(t) \/ text_matches(t)

Iterated == phase \in {"iterated", "html", "rendered", "custom", "done"}

Nodes == 1..Len(arena)

StartsOf(n) == {i \in 1..Len(events) : events[i] = Edge("Start", n)}

EndsOf(n) == {i \in 1..Len(events) : events[i] = Edge("End", n)}

StartOf(n) == CHOOSE i \in StartsOf(n) : TRUE

EndOf(n) == CHOOSE i \in EndsOf(n) : TRUE

ChildrenOf(n) == {arena[n].children[i] : i \in 1..Len(arena[n].children)}

\* C1 as stated: each container has exactly one Start and one End, the End
\* after the events of all its children, and each leaf has exactly one
\* Start and no End.
C1_AsStated ==
    Iterated =>
        \A n \in Nodes :
            IF is_container(arena[n].elem)
            THEN /\ Cardinality(StartsOf(n)) = 1
                 /\ Cardinality(EndsOf(n)) = 1
                 /\ \A c \in ChildrenOf(n) : \A i \in StartsOf(c) \cup EndsOf(c) :
                        i < EndOf(n)
            ELSE /\ Cardinality(StartsOf(n)) = 1
                 /\ EndsOf(n) = {}

\* C1 amended: each node, container or leaf, has exactly one Start and
\* exactly one matching End; the End comes after the Start and after the
\* Start and End of all the node's children, and directly after the Start
\* when the node has no children.
C1_Nesting ==
    Iterated =>
        \A n \in Nodes :
            /\ Cardinality(StartsOf(n)) = 1
            /\ Cardinality(EndsOf(n)) = 1
            /\ StartOf(n) < EndOf(n)
            /\ \A c \in ChildrenOf(n) : \A i \in StartsOf(c) \cup EndsOf(c) :
                   StartOf(n) < i /\ i < EndOf(n)
            /\ arena[n].children = <<>> => EndOf(n) = StartOf(n) + 1
            /\ ~is_container(arena[n].elem) => arena[n].children = <<>>

C1_Witness ==
    /\ phase = "iterated"
    /\ \E n, c \in Nodes :
          /\ arena[n].elem.kind = "Bold" /\ arena[c].elem.kind = "Text"
          /\ arena[c].parent = n
          /\ EndOf(c) = StartOf(c) + 1
          /\ EndOf(n) = EndOf(c) + 1

MentionsOf(n) == {i \in 1..Len(events) : events[i].node = n}

\* C2: every element, container or not, appears exactly twice in the event
\* sequence: once as Start and once as End.
C2_Twice ==
    Iterated =>
        /\ \A n \in Nodes :
              \E i, j \in MentionsOf(n) :
                  /\ MentionsOf(n) = {i, j}
                  /\ events[i].edge = "Start"
                  /\ events[j].edge = "End"
        /\ \A i \in 1..Len(events) : events[i].node \in Nodes
        /\ Len(events) = 2 * Len(arena)

C2_Witness ==
    /\ phase = "iterated"
    /\ \E n, m \in Nodes :
          /\ arena[n].elem.kind = "Text" /\ arena[m].elem.kind = "Keyword"
          /\ Cardinality(MentionsOf(n)) = 2
          /\ Cardinality(MentionsOf(m)) = 2

(***************************************************************************)
(* Rendering                                                               *)
(***************************************************************************)
ElemOf(ev) == arena[ev.node].elem

\* what MyHtmlHandler answers to the call made for an event
CallOk(ev) ==
    IF ev.edge = "Start" THEN my_start(ElemOf(ev)).ok ELSE my_end(ElemOf(ev)).ok

LeafEnd(ev) == ev.edge = "End" /\ ~is_container(ElemOf(ev))

NotTitle(ev) == ElemOf(ev).kind # "Title"

\* C8 as stated: for any document the custom handler's output equals the
\* default handler's except for the fragments written at Title events, all
\* fragments in the same event order.
C8_AsStated ==
    phase = "done" =>
        /\ Len(custom) = Len(html)
        /\ \A i \in 1..Len(custom) : NotTitle(events[i]) => custom[i] = html[i]

DocExample == << <<"*", " ", "title">>, <<"*", "section", "*">> >>

DefaultExampleHtml ==
    <<"<main>", "<h", "1", ">", "title", "</h", "1", ">", "<section>", "<p>",
      "<b>", "section", "</b>", "</p>", "</section>", "</main>">>

CustomExampleHtml ==
    <<"<main>", "<h", "1", "><a id=\"", "title", "\" href=\"#", "title", "\">",
      "title", "</a></h", "1", ">", "<section>", "<p>", "<b>", "section",
      "</b>", "</p>", "</section>", "</main>">>

DeepTitles == {n \in Nodes : arena[n].elem.kind = "Title" /\ arena[n].elem.level > 6}

\* C8 amended: for any document whose headlines are all of level 6 or less,
\* the custom handler's output equals the default handler's except for the
\* fragments written at Title events, in the same event order; with a
\* deeper headline the custom render returns the Heading error at the first
\* such Title and what it wrote until then agrees with the default output
\* in the same way. For "* title\n*section*" the two outputs are the
\* documented ones.
C8_CustomVsDefault ==
    phase = "done" =>
        /\ \A i \in 1..Len(custom) : NotTitle(events[i]) => custom[i] = html[i]
        /\ Len(html) = Len(events)
        /\ DeepTitles = {} => result = "Ok" /\ Len(custom) = Len(html)
        /\ DeepTitles # {} =>
              /\ result = "Err(Heading)"
              /\ Len(custom) + 1 = Min({StartOf(n) : n \in DeepTitles})
        /\ input = DocExample =>
              /\ Flatten(html) = DefaultExampleHtml
              /\ Flatten(custom) = CustomExampleHtml

C8_Witness ==
    /\ phase = "done"
    /\ input = DocExample
    /\ result = "Ok"
    /\ \E i \in 1..Len(custom) : custom[i] # html[i]

====
